---- MODULE Spec2Model ----
(***************************************************************************)
(* The Intcode Machine and the arcade World of day13/src/main.rs.          *)
(*                                                                         *)
(* Machine::run is modelled one loop iteration at a time (RunStep), with   *)
(* pc recording where the machine is: "idle" (not inside run), "check"     *)
(* (run entered, at the status match of lines 73-77), "loop" (at the top   *)
(* of the loop, line 80) and "panicked" (the process has aborted).         *)
(* wpc records where the caller of the machine is: an arbitrary client of  *)
(* the Machine API, World::process, or World::play.                        *)
(***************************************************************************)
EXTENDS Integers, Sequences, FiniteSets, TLC

VARIABLES
    mem,            \* Machine.mem: the cells holding a non-zero value
    mem_len,        \* Machine.mem.len()
    pos,            \* Machine.pos, a usize in base-10^9 digits (see USize)
    inputs,         \* Machine.inputs
    outputs,        \* Machine.outputs
    input_pos,      \* Machine.input_pos
    output_pos,     \* Machine.output_pos
    status,         \* Machine.status
    relative_base,  \* Machine.relative_base
    pc,             \* position of the machine: idle / check / loop / panicked
    fault,          \* "none", or the kind of panic that aborted the process
    tiles,          \* World.tiles
    score,          \* World.score
    paddle_x,       \* World.paddle_x
    ball_x,         \* World.ball_x
    chunk_idx,      \* index of the next chunk of output.chunks(3)
    steps,          \* instructions executed so far (bounds the exploration)
    program,        \* the program loaded (main's mem), never changed
    runs,           \* calls of Machine::run made by the World so far
    wpc             \* position of the caller of the machine

mvars == <<mem, mem_len, pos, inputs, outputs, input_pos, output_pos, status,
           relative_base>>
wvars == <<tiles, score, paddle_x, ball_x, chunk_idx>>
vars == <<mem, mem_len, pos, inputs, outputs, input_pos, output_pos, status,
          relative_base,
          pc, fault, tiles, score, paddle_x, ball_x, chunk_idx, steps,
          program, runs, wpc>>

----------------------------------------------------------------------------
(* Bounds of the model. *)

\* No more than MaxInputs values are ever supplied to a machine.
MaxInputs == 2

\* No more than MaxOutputs values are held in the output vector.
MaxOutputs == 9

\* A step whose result leaves -MaxVal..MaxVal is not explored.
MaxVal == 40000

\* No more than MaxSteps instructions are executed by a machine.
MaxSteps == 14

----------------------------------------------------------------------------
(* Program constants. *)

\* Machine::new pushes this many zero cells after the program.
ExtraCells == 1000

----------------------------------------------------------------------------
(* MachineStatus *)

Runnable == <<"Runnable">>
Blocked == <<"Blocked">>
Finished == <<"Finished">>
BadOpcode(code) == <<"BadOpcode", code>>

IsBadOpcode(s) == s[1] = "BadOpcode"

----------------------------------------------------------------------------
(* Rust integer operations. *)

\* i64 `/` truncates toward zero (b > 0 here).
TruncDiv(a, b) == IF a >= 0 THEN a \div b ELSE -((-a) \div b)

\* i64 `%` takes the sign of the dividend (b > 0 here).
TruncRem(a, b) == a - b * TruncDiv(a, b)

\* A usize is written as the three base-10^9 digits of its value, most
\* significant first: <<0, 0, 4>> is 4 and <<18, 446744073, 709551615>> is
\* 18446744073709551615 = 2^64 - 1.
USize(n) == <<0, n \div 1000000000, n % 1000000000>>

\* The value of a usize as an integer, for a usize below 2^31.
Idx(u) == u[2] * 1000000000 + u[3]

\* `x as usize` of an i64 x: x itself when x >= 0 and 2^64 + x when x < 0
\* (2^64 = 18446744073709551616).
AsUsize(x) ==
    IF x >= 0 THEN USize(x)
    ELSE LET low == 709551616 + x
             borrow == IF low >= 0 THEN 0
                       ELSE IF low + 1000000000 >= 0 THEN 1
                       ELSE 2
         IN  <<18, 446744073 - borrow, low + borrow * 1000000000>>

----------------------------------------------------------------------------
(* Machine::new *)

(* The Vec mem is held as its length and its non-zero cells: every other    *)
(* cell of 0 .. mem_len - 1 holds 0.                                       *)

\* mem[i], for i in bounds
Cell(i) == IF i \in DOMAIN mem THEN mem[i] ELSE 0

\* mem after mem[i] = v, for i in bounds
Store(i, v) ==
    IF v = 0
    THEN [k \in (DOMAIN mem) \ {i} |-> mem[k]]
    ELSE [k \in (DOMAIN mem) \cup {i} |-> IF k = i THEN v ELSE mem[k]]

\* The program followed by ExtraCells zero cells.
NewMem(code) ==
    [i \in {j \in 0 .. (Len(code) - 1) : code[j + 1] # 0} |-> code[i + 1]]

NewMemLen(code) == Len(code) + ExtraCells

\* An index the Vec accepts; any other panics.
InBounds(i) == i \in 0 .. (mem_len - 1)

\* The bounds check of mem[u] for a usize u.
InBoundsUsize(u) == u[1] = 0 /\ u[2] = 0 /\ InBounds(u[3])

----------------------------------------------------------------------------
(* Machine::arg *)

\* ArgMode reading the digit one place too high.
ArgModeShifted(k) ==
    LET addressing == TruncDiv(Cell(Idx(pos)), 100)
    IN  TruncRem(TruncDiv(addressing, 10 ^ (k + 1)), 10)

\* The addressing mode digit of operand k of the instruction at pos.
ArgMode(k) ==
    LET addressing == TruncDiv(Cell(Idx(pos)), 100)
    IN  TruncRem(TruncDiv(addressing, 10 ^ k), 10)

\* The cell operand k refers to: [fault |-> "none", addr |-> index into mem],
\* or the panic that evaluating it raises.
Arg(k) ==
    LET mode == ArgMode(k)
        cell == Idx(pos) + 1 + k
        Oob == [fault |-> "mem_index", addr |-> 0]
    IN  CASE mode = 0 ->
               IF ~InBounds(cell) THEN Oob
               ELSE LET addr == AsUsize(Cell(cell))
                    IN  IF InBoundsUsize(addr)
                        THEN [fault |-> "none", addr |-> Idx(addr)]
                        ELSE Oob
          [] mode = 1 ->
               IF InBounds(cell) THEN [fault |-> "none", addr |-> cell] ELSE Oob
          [] mode = 2 ->
               IF ~InBounds(cell) THEN Oob
               ELSE LET addr == AsUsize(relative_base + Cell(cell))
                    IN  IF InBoundsUsize(addr)
                        THEN [fault |-> "none", addr |-> Idx(addr)]
                        ELSE Oob
          [] OTHER -> [fault |-> "bad_mode", addr |-> 0]

\* The first panic among the operands 0..n-1, evaluated in order.
ArgFault(n) ==
    IF Arg(0).fault # "none" THEN Arg(0).fault
    ELSE IF n > 1 /\ Arg(1).fault # "none" THEN Arg(1).fault
    ELSE IF n > 2 /\ Arg(2).fault # "none" THEN Arg(2).fault
    ELSE "none"

\* The values explored: far inside i64, so no add or mul overflows.
Small(v) == v \in -MaxVal .. MaxVal

----------------------------------------------------------------------------
(* Machine::run *)

Panic(kind) ==
    /\ fault' = kind
    /\ pc' = "panicked"

\* RunCheck without the early return for a terminal status.
RunCheckAlwaysLoops ==
    /\ UNCHANGED <<steps, program, runs>>
    /\ pc = "check"
    /\ pc' = "loop"
    /\ UNCHANGED <<mvars, fault, wvars, wpc>>

\* Lines 73-77: a machine in a terminal status returns at once.
RunCheck ==
    /\ UNCHANGED <<steps, program, runs>>
    /\ pc = "check"
    /\ pc' = IF status = Finished \/ IsBadOpcode(status) THEN "idle" ELSE "loop"
    /\ UNCHANGED <<mvars, fault, wvars, wpc>>

\* BinOp with the operations of opcodes 1 and 2 exchanged.
BinOpSwapped(opcode, a, b) ==
    CASE opcode = 1 -> a * b
      [] opcode = 2 -> a + b
      [] opcode = 7 -> IF a < b THEN 1 ELSE 0
      [] opcode = 8 -> IF a = b THEN 1 ELSE 0

\* The value opcodes 1, 2, 7 and 8 store.
BinOp(opcode, a, b) ==
    CASE opcode = 1 -> a + b
      [] opcode = 2 -> a * b
      [] opcode = 7 -> IF a < b THEN 1 ELSE 0
      [] opcode = 8 -> IF a = b THEN 1 ELSE 0

\* Opcodes 1, 2, 7, 8: *arg(2) = op(*arg(0), *arg(1)); pos += 4.
ExecBinary(opcode) ==
    IF ArgFault(3) # "none"
    THEN Panic(ArgFault(3)) /\ UNCHANGED mvars
    ELSE LET val == BinOp(opcode, Cell(Arg(0).addr), Cell(Arg(1).addr))
         IN  /\ Small(val)
             /\ mem' = Store(Arg(2).addr, val)
             /\ pos' = USize(Idx(pos) + 4)
             /\ UNCHANGED <<inputs, outputs, input_pos, output_pos, status,
                            relative_base, pc, fault>>

\* ExecInput stepping over the instruction when it blocks.
ExecInputSkipsOnBlock ==
    IF input_pos < Len(inputs)
    THEN IF ArgFault(1) # "none"
         THEN /\ Panic(ArgFault(1))
              /\ input_pos' = input_pos + 1
              /\ UNCHANGED <<mem, mem_len, pos, inputs, outputs, output_pos, status,
                             relative_base>>
         ELSE /\ mem' = Store(Arg(0).addr, inputs[input_pos + 1])
              /\ input_pos' = input_pos + 1
              /\ pos' = USize(Idx(pos) + 2)
              /\ UNCHANGED <<inputs, outputs, output_pos, status, relative_base,
                             pc, fault>>
    ELSE /\ status' = Blocked
         /\ pc' = "idle"
         /\ pos' = USize(Idx(pos) + 2)
         /\ UNCHANGED <<mem, mem_len, inputs, outputs, input_pos, output_pos,
                        relative_base, fault>>

\* ExecInput that leaves the cursor on the input it has just written.
ExecInputRereads ==
    IF input_pos < Len(inputs)
    THEN IF ArgFault(1) # "none"
         THEN /\ Panic(ArgFault(1))
              /\ UNCHANGED mvars
         ELSE /\ mem' = Store(Arg(0).addr, inputs[input_pos + 1])
              /\ pos' = USize(Idx(pos) + 2)
              /\ UNCHANGED <<inputs, outputs, input_pos, output_pos, status,
                             relative_base, pc, fault>>
    ELSE /\ status' = Blocked
         /\ pc' = "idle"
         /\ UNCHANGED <<mem, mem_len, pos, inputs, outputs, input_pos, output_pos,
                        relative_base, fault>>

\* ExecInput that rewinds the cursor when it blocks.
ExecInputBlockRewinds ==
    IF input_pos < Len(inputs)
    THEN IF ArgFault(1) # "none"
         THEN /\ Panic(ArgFault(1))
              /\ input_pos' = input_pos + 1
              /\ UNCHANGED <<mem, mem_len, pos, inputs, outputs, output_pos, status,
                             relative_base>>
         ELSE /\ mem' = Store(Arg(0).addr, inputs[input_pos + 1])
              /\ input_pos' = input_pos + 1
              /\ pos' = USize(Idx(pos) + 2)
              /\ UNCHANGED <<inputs, outputs, output_pos, status, relative_base,
                             pc, fault>>
    ELSE /\ status' = Blocked
         /\ pc' = "idle"
         /\ input_pos' = 0
         /\ UNCHANGED <<mem, mem_len, pos, inputs, outputs, output_pos,
                        relative_base, fault>>

\* Opcode 3.
ExecInput ==
    IF input_pos < Len(inputs)
    THEN IF ArgFault(1) # "none"
         THEN /\ Panic(ArgFault(1))
              /\ input_pos' = input_pos + 1
              /\ UNCHANGED <<mem, mem_len, pos, inputs, outputs, output_pos, status,
                             relative_base>>
         ELSE /\ mem' = Store(Arg(0).addr, inputs[input_pos + 1])
              /\ input_pos' = input_pos + 1
              /\ pos' = USize(Idx(pos) + 2)
              /\ UNCHANGED <<inputs, outputs, output_pos, status, relative_base,
                             pc, fault>>
    ELSE /\ status' = Blocked
         /\ pc' = "idle"
         /\ UNCHANGED <<mem, mem_len, pos, inputs, outputs, input_pos, output_pos,
                        relative_base, fault>>

\* ExecOutput that puts the value in front of the outputs.
ExecOutputPrepends ==
    IF ArgFault(1) # "none"
    THEN Panic(ArgFault(1)) /\ UNCHANGED mvars
    ELSE /\ Len(outputs) < MaxOutputs
         /\ outputs' = <<Cell(Arg(0).addr)>> \o outputs
         /\ pos' = USize(Idx(pos) + 2)
         /\ UNCHANGED <<mem, mem_len, inputs, input_pos, output_pos, status, relative_base,
                        pc, fault>>

\* Opcode 4.
ExecOutput ==
    IF ArgFault(1) # "none"
    THEN Panic(ArgFault(1)) /\ UNCHANGED mvars
    ELSE /\ Len(outputs) < MaxOutputs
         /\ outputs' = Append(outputs, Cell(Arg(0).addr))
         /\ pos' = USize(Idx(pos) + 2)
         /\ UNCHANGED <<mem, mem_len, inputs, input_pos, output_pos, status, relative_base,
                        pc, fault>>

\* ExecJump with the two conditions exchanged.
ExecJumpSwapped(opcode) ==
    IF ArgFault(2) # "none"
    THEN Panic(ArgFault(2)) /\ UNCHANGED mvars
    ELSE LET cond == Cell(Arg(0).addr)
             target == Cell(Arg(1).addr)
         IN  /\ pos' = IF (opcode = 5 /\ cond = 0) \/ (opcode = 6 /\ cond # 0)
                       THEN AsUsize(target)
                       ELSE USize(Idx(pos) + 3)
             /\ UNCHANGED <<mem, mem_len, inputs, outputs, input_pos, output_pos, status,
                            relative_base, pc, fault>>

\* Opcodes 5 (jump if cond != 0) and 6 (jump if cond == 0).
ExecJump(opcode) ==
    IF ArgFault(2) # "none"
    THEN Panic(ArgFault(2)) /\ UNCHANGED mvars
    ELSE LET cond == Cell(Arg(0).addr)
             target == Cell(Arg(1).addr)
         IN  /\ pos' = IF (opcode = 5 /\ cond # 0) \/ (opcode = 6 /\ cond = 0)
                       THEN AsUsize(target)
                       ELSE USize(Idx(pos) + 3)
             /\ UNCHANGED <<mem, mem_len, inputs, outputs, input_pos, output_pos, status,
                            relative_base, pc, fault>>

\* ExecRelBase that assigns the operand instead of adding it.
ExecRelBaseAssigns ==
    IF ArgFault(1) # "none"
    THEN Panic(ArgFault(1)) /\ UNCHANGED mvars
    ELSE /\ Small(relative_base + Cell(Arg(0).addr))
         /\ relative_base' = Cell(Arg(0).addr)
         /\ pos' = USize(Idx(pos) + 2)
         /\ UNCHANGED <<mem, mem_len, inputs, outputs, input_pos, output_pos, status,
                        pc, fault>>

\* Opcode 9.
ExecRelBase ==
    IF ArgFault(1) # "none"
    THEN Panic(ArgFault(1)) /\ UNCHANGED mvars
    ELSE /\ Small(relative_base + Cell(Arg(0).addr))
         /\ relative_base' = relative_base + Cell(Arg(0).addr)
         /\ pos' = USize(Idx(pos) + 2)
         /\ UNCHANGED <<mem, mem_len, inputs, outputs, input_pos, output_pos, status,
                        pc, fault>>

\* ExecReturn forgetting to record the status.
ExecReturnKeepsStatus(newStatus) ==
    /\ pc' = "idle"
    /\ UNCHANGED <<mem, mem_len, pos, inputs, outputs, input_pos, output_pos, status,
                   relative_base, fault>>

\* Opcode 99 and the unrecognised opcodes.
ExecReturn(newStatus) ==
    /\ status' = newStatus
    /\ pc' = "idle"
    /\ UNCHANGED <<mem, mem_len, pos, inputs, outputs, input_pos, output_pos,
                   relative_base, fault>>

\* One iteration of the loop of lines 79-158.
RunStep ==
    /\ pc = "loop"
    /\ steps < MaxSteps
    /\ IF ~InBoundsUsize(pos)
       THEN Panic("mem_index") /\ UNCHANGED mvars
       ELSE LET opcode == TruncRem(Cell(Idx(pos)), 100)
            IN  CASE opcode \in {1, 2, 7, 8} -> ExecBinary(opcode)
                  [] opcode = 3 -> ExecInput
                  [] opcode = 4 -> ExecOutput
                  [] opcode \in {5, 6} -> ExecJump(opcode)
                  [] opcode = 9 -> ExecRelBase
                  [] opcode = 99 -> ExecReturn(Finished)
                  [] OTHER -> ExecReturn(BadOpcode(opcode))
    /\ steps' = IF pc' = "loop" THEN steps + 1 ELSE steps
    /\ UNCHANGED <<program, runs>>
    /\ UNCHANGED <<mem_len, wvars, wpc>>

----------------------------------------------------------------------------
(* World *)

\* HashMap::new()
NoTiles == [k \in {} |-> 0]

\* TileInsert that removes the coordinate when the tile is empty (code 0).
TileInsertDropsEmpty(t, key, tile) ==
    IF tile = 0
    THEN [k \in (DOMAIN t) \ {key} |-> t[k]]
    ELSE [k \in (DOMAIN t) \cup {key} |-> IF k = key THEN tile ELSE t[k]]

\* HashMap::insert
TileInsert(t, key, tile) ==
    [k \in (DOMAIN t) \cup {key} |-> IF k = key THEN tile ELSE t[k]]

\* World::count_blocks
CountBlocks == Cardinality({k \in DOMAIN tiles : tiles[k] = 2})

\* The chunk_idx-th element of output.chunks(3): the last one may be short.
Chunk ==
    LET first == 3 * chunk_idx + 1
        last == IF first + 2 <= Len(outputs) THEN first + 2 ELSE Len(outputs)
    IN  SubSeq(outputs, first, last)

MoreChunks == 3 * chunk_idx < Len(outputs)

\* World::process, line 232: the call of run.
ProcessRun ==
    /\ UNCHANGED <<steps, program>>
    /\ runs' = runs + 1
    /\ wpc = "process" /\ pc = "idle"
    /\ pc' = "check"
    /\ wpc' = "process_decode"
    /\ chunk_idx' = 0
    /\ UNCHANGED <<mvars, fault, tiles, score, paddle_x, ball_x>>

\* World::process, lines 235-240: the body of the loop over the chunks.
ProcessChunk ==
    /\ UNCHANGED <<steps, program, runs>>
    /\ wpc = "process_decode" /\ pc = "idle"
    /\ MoreChunks
    /\ IF Len(Chunk) < 3
       THEN /\ Panic("chunk_index")
            /\ UNCHANGED <<tiles, chunk_idx>>
       ELSE /\ tiles' = TileInsert(tiles, <<Chunk[1], Chunk[2]>>, Chunk[3])
            /\ chunk_idx' = chunk_idx + 1
            /\ UNCHANGED <<pc, fault>>
    /\ UNCHANGED <<mvars, score, paddle_x, ball_x, wpc>>

\* World::process returns when the chunks are exhausted.
ProcessReturn ==
    /\ UNCHANGED <<steps, program, runs>>
    /\ wpc = "process_decode" /\ pc = "idle"
    /\ ~MoreChunks
    /\ wpc' = "process_done"
    /\ UNCHANGED <<mvars, pc, fault, wvars>>

\* World::play, line 244.
PlayStart ==
    /\ UNCHANGED <<steps, program, runs>>
    /\ wpc = "play" /\ pc = "idle"
    /\ mem' = Store(0, 2)
    /\ wpc' = "play_loop"
    /\ UNCHANGED <<mem_len, pos, inputs, outputs, input_pos, output_pos,
                   status, relative_base, pc, fault, wvars>>

\* World::play, lines 247-248: clear the outputs and call run.
PlayRun ==
    /\ UNCHANGED <<steps, program>>
    /\ runs' = runs + 1
    /\ wpc = "play_loop" /\ pc = "idle"
    /\ outputs' = <<>>
    /\ pc' = "check"
    /\ wpc' = "play_decode"
    /\ chunk_idx' = 0
    /\ UNCHANGED <<mem, mem_len, pos, inputs, input_pos, output_pos, status,
                   relative_base, fault, tiles, score, paddle_x, ball_x>>

\* PlayChunk without the test for the score coordinate.
PlayChunkNoScore ==
    /\ UNCHANGED <<steps, program, runs>>
    /\ wpc = "play_decode" /\ pc = "idle"
    /\ MoreChunks
    /\ IF Len(Chunk) < 3
       THEN /\ Panic("chunk_index")
            /\ UNCHANGED <<tiles, score, paddle_x, ball_x, chunk_idx>>
       ELSE LET x == Chunk[1]
                y == Chunk[2]
                tile == Chunk[3]
            IN  /\ tiles' = TileInsert(tiles, <<x, y>>, tile)
                /\ paddle_x' = IF tile = 3 THEN x ELSE paddle_x
                /\ ball_x' = IF tile = 4 THEN x ELSE ball_x
                /\ UNCHANGED score
                /\ chunk_idx' = chunk_idx + 1
                /\ UNCHANGED <<pc, fault>>
    /\ UNCHANGED <<mvars, wpc>>

\* PlayChunk with the tile codes of paddle and ball exchanged.
PlayChunkSwapsPaddleBall ==
    /\ UNCHANGED <<steps, program, runs>>
    /\ wpc = "play_decode" /\ pc = "idle"
    /\ MoreChunks
    /\ IF Len(Chunk) < 3
       THEN /\ Panic("chunk_index")
            /\ UNCHANGED <<tiles, score, paddle_x, ball_x, chunk_idx>>
       ELSE LET x == Chunk[1]
                y == Chunk[2]
                tile == Chunk[3]
            IN  /\ IF x = -1 /\ y = 0
                   THEN /\ score' = tile
                        /\ UNCHANGED <<tiles, paddle_x, ball_x>>
                   ELSE /\ tiles' = TileInsert(tiles, <<x, y>>, tile)
                        /\ paddle_x' = IF tile = 4 THEN x ELSE paddle_x
                        /\ ball_x' = IF tile = 3 THEN x ELSE ball_x
                        /\ UNCHANGED score
                /\ chunk_idx' = chunk_idx + 1
                /\ UNCHANGED <<pc, fault>>
    /\ UNCHANGED <<mvars, wpc>>

\* World::play, lines 252-268: the body of the loop over the chunks.
PlayChunk ==
    /\ UNCHANGED <<steps, program, runs>>
    /\ wpc = "play_decode" /\ pc = "idle"
    /\ MoreChunks
    /\ IF Len(Chunk) < 3
       THEN /\ Panic("chunk_index")
            /\ UNCHANGED <<tiles, score, paddle_x, ball_x, chunk_idx>>
       ELSE LET x == Chunk[1]
                y == Chunk[2]
                tile == Chunk[3]
            IN  /\ IF x = -1 /\ y = 0
                   THEN /\ score' = tile
                        /\ UNCHANGED <<tiles, paddle_x, ball_x>>
                   ELSE /\ tiles' = TileInsert(tiles, <<x, y>>, tile)
                        /\ paddle_x' = IF tile = 3 THEN x ELSE paddle_x
                        /\ ball_x' = IF tile = 4 THEN x ELSE ball_x
                        /\ UNCHANGED score
                /\ chunk_idx' = chunk_idx + 1
                /\ UNCHANGED <<pc, fault>>
    /\ UNCHANGED <<mvars, wpc>>

\* Autopilot steering away from the ball.
AutopilotInverted ==
    IF ball_x < paddle_x THEN 1 ELSE IF ball_x = paddle_x THEN 0 ELSE -1

\* The input the autopilot supplies, lines 279-283.
Autopilot ==
    IF ball_x < paddle_x THEN -1 ELSE IF ball_x = paddle_x THEN 0 ELSE 1

\* PlayDecide returning only when the machine has finished.
PlayDecideOnlyFinished ==
    /\ UNCHANGED <<steps, program, runs>>
    /\ wpc = "play_decode" /\ pc = "idle"
    /\ ~MoreChunks
    /\ IF status = Finished
       THEN /\ wpc' = "play_done"
            /\ UNCHANGED inputs
       ELSE /\ Len(inputs) < MaxInputs
            /\ inputs' = Append(inputs, Autopilot)
            /\ wpc' = "play_loop"
    /\ UNCHANGED <<mem, mem_len, pos, outputs, input_pos, output_pos, status,
                   relative_base, pc, fault, wvars>>

\* World::play, lines 270-283: return, or supply an input and loop.
PlayDecide ==
    /\ UNCHANGED <<steps, program, runs>>
    /\ wpc = "play_decode" /\ pc = "idle"
    /\ ~MoreChunks
    /\ IF CountBlocks = 0 \/ status = Finished
       THEN /\ wpc' = "play_done"
            /\ UNCHANGED inputs
       ELSE /\ Len(inputs) < MaxInputs
            /\ inputs' = Append(inputs, Autopilot)
            /\ wpc' = "play_loop"
    /\ UNCHANGED <<mem, mem_len, pos, outputs, input_pos, output_pos, status,
                   relative_base, pc, fault, wvars>>

----------------------------------------------------------------------------
(* A client of the Machine API: any interleaving of its public methods. *)

InputVals == {-1, 7}

\* Machine::add_input
AddInput(v) ==
    /\ UNCHANGED <<steps, program, runs>>
    /\ wpc = "client" /\ pc = "idle"
    /\ Len(inputs) < MaxInputs
    /\ inputs' = Append(inputs, v)
    /\ UNCHANGED <<mem, mem_len, pos, outputs, input_pos, output_pos, status,
                   relative_base, pc, fault, wvars, wpc>>

\* Machine::add_inputs
AddInputs(vs) ==
    /\ UNCHANGED <<steps, program, runs>>
    /\ wpc = "client" /\ pc = "idle"
    /\ Len(inputs) + Len(vs) <= MaxInputs
    /\ inputs' = inputs \o vs
    /\ UNCHANGED <<mem, mem_len, pos, outputs, input_pos, output_pos, status,
                   relative_base, pc, fault, wvars, wpc>>

\* Machine::get_output (the returned Option is not kept)
GetOutput ==
    /\ UNCHANGED <<steps, program, runs>>
    /\ wpc = "client" /\ pc = "idle"
    /\ output_pos' = IF output_pos < Len(outputs) THEN output_pos + 1 ELSE output_pos
    /\ UNCHANGED <<mem, mem_len, pos, inputs, outputs, input_pos, status,
                   relative_base, pc, fault, wvars, wpc>>

\* A call of Machine::run.
ClientRun ==
    /\ UNCHANGED <<steps, program, runs>>
    /\ wpc = "client" /\ pc = "idle"
    /\ pc' = "check"
    /\ UNCHANGED <<mvars, fault, wvars, wpc>>

\* Machine::easy_run
EasyRun(vs) ==
    /\ UNCHANGED <<steps, program, runs>>
    /\ wpc = "client" /\ pc = "idle"
    /\ Len(inputs) + Len(vs) <= MaxInputs
    /\ inputs' = inputs \o vs
    /\ pc' = "check"
    /\ UNCHANGED <<mem, mem_len, pos, outputs, input_pos, output_pos, status,
                   relative_base, fault, wvars, wpc>>

----------------------------------------------------------------------------
(* The programs the machine is loaded with. *)

\* Instruction words: every opcode, in several addressing modes; words with
\* a mode digit above 2; words whose opcode is not recognised.
Words == {1, 2, 3, 4, 5, 6, 7, 8, 9, 99, 0,
          101, 1002, 1101, 2202, 10001, 11101, 21101, 20008,
          103, 203, 104, 204, 109, 209, 1105, 1106, 1205, 1107, 1108,
          301, 3001, 30001, 304, 199, -1, -199, 98, 100}

\* Operand cells: addresses inside the program, a negative value, and an
\* address beyond the end of the memory.
Params == {-1, 0, 1, 4, 2000}

RelBases == {-1, 2}
RelParams == {0, 1, 5}

\* Operands of the two-instruction arithmetic programs: the first word, the
\* second word and the final 99.
ArithParams == {0, 4, 8}

\* Words and operands of the programs of three input/output instructions.
IoWords == {3, 4, 104}
IoParams == {0, 2, 7}

\* One instruction of any word followed by 99; the same behind an
\* instruction that moves the relative base; two arithmetic instructions
\* followed by 99; three input/output instructions followed by 99.
MachinePrograms ==
    {<<w, a, b, c, 99>> : w \in Words, a \in Params, b \in Params, c \in Params}
    \cup
    {<<109, r, w, p[1], p[2], p[3], 99>> :
        r \in RelBases, w \in Words, p \in RelParams \X RelParams \X RelParams}
    \cup
    {<<w[1], p[1], p[2], p[3], w[2], q[1], q[2], q[3], 99>> :
        w \in {1, 2} \X {1, 2},
        p \in ArithParams \X ArithParams \X ArithParams,
        q \in ArithParams \X ArithParams \X ArithParams}
    \cup
    {<<w[1], p[1], w[2], p[2], w[3], p[3], 99>> :
        w \in IoWords \X IoWords \X IoWords,
        p \in IoParams \X IoParams \X IoParams}

InitMachine ==
    /\ program \in MachinePrograms
    /\ mem = NewMem(program) /\ mem_len = NewMemLen(program)
    /\ runs = 0
    /\ pos = USize(0)
    /\ inputs = <<>>
    /\ outputs = <<>>
    /\ input_pos = 0
    /\ output_pos = 0
    /\ status = Runnable
    /\ relative_base = 0
    /\ pc = "idle"
    /\ fault = "none"
    /\ tiles = NoTiles
    /\ score = 0
    /\ paddle_x = 0
    /\ ball_x = 0
    /\ chunk_idx = 0
    /\ steps = 0
    /\ wpc = "client"

NextMachine ==
    \/ RunCheck
    \/ RunStep
    \/ ClientRun
    \/ \E v \in InputVals : AddInput(v)
    \/ \E vs \in {<<-1, 7>>} : AddInputs(vs)
    \/ \E vs \in {<<7>>} : EasyRun(vs)
    \/ GetOutput

SpecMachine == InitMachine /\ [][NextMachine]_vars

----------------------------------------------------------------------------
(* The programs a World is run on: a four-cell first instruction (cell 0 is *)
(* the cell World::play overwrites), then up to MaxBlocks blocks.          *)

MaxBlocks == 3

Emit(x, y, tile) == <<104, x, 104, y, 104, tile>>

Blocks ==
    {Emit(t[1], t[2], t[3]) :
        t \in {<<-1, 0, 5>>, <<-1, 0, 3>>, <<0, 0, 2>>, <<0, 0, 0>>,
               <<1, 0, 3>>, <<1, 0, 4>>, <<-1, 1, 4>>, <<1, 1, 2>>}}
    \cup {<<104, 2>>, <<4, 4>>, <<3, 0>>, <<99>>}

RECURSIVE Concat(_)
Concat(ss) == IF ss = <<>> THEN <<>> ELSE Head(ss) \o Concat(Tail(ss))

WorldPrograms ==
    {<<1, 0, 0, 0>> \o Concat(bs) :
        bs \in UNION {[1 .. n -> Blocks] : n \in 0 .. MaxBlocks}}

InitWorld ==
    /\ program \in WorldPrograms
    /\ mem = NewMem(program) /\ mem_len = NewMemLen(program)
    /\ runs = 0
    /\ pos = USize(0)
    /\ inputs = <<>>
    /\ outputs = <<>>
    /\ input_pos = 0
    /\ output_pos = 0
    /\ status = Runnable
    /\ relative_base = 0
    /\ pc = "idle"
    /\ fault = "none"
    /\ tiles = NoTiles
    /\ score = 0
    /\ paddle_x = 0
    /\ ball_x = 0
    /\ chunk_idx = 0
    /\ steps = 0
    /\ wpc \in {"process", "play"}

NextWorld ==
    \/ RunCheck
    \/ RunStep
    \/ ProcessRun
    \/ ProcessChunk
    \/ ProcessReturn
    \/ PlayStart
    \/ PlayRun
    \/ PlayChunk
    \/ PlayDecide

SpecWorld == InitWorld /\ [][NextWorld]_vars

----------------------------------------------------------------------------
(* Properties of the Machine, checked under SpecMachine. *)

Terminal(s) == s = Finished \/ IsBadOpcode(s)

\* C1. Terminal idempotence: once status is Finished or BadOpcode(code), a call
\* of run returns from its status check with memory, instruction pointer,
\* relative base, inputs, input cursor, outputs and status unchanged, and no
\* loop iteration (and so no instruction, and no panic) ever happens again,
\* also when inputs were appended in between.
C1_TerminalIdempotence ==
    [][Terminal(status) =>
          /\ pc' \notin {"loop", "panicked"}
          /\ pc = "check" => (pc' = "idle" /\ UNCHANGED mvars)
          /\ UNCHANGED <<mem, mem_len, pos, relative_base, input_pos, outputs,
                         status>>]_vars

\* A run is entered in status Finished with an input appended after the halt.
C1_Witness ==
    /\ pc = "check"
    /\ status = Finished
    /\ input_pos < Len(inputs)
    /\ Len(outputs) > 0

\* The opcode of the instruction at the pointer, as Rust's mem[pos] % 100.
OpcodeAt == TruncRem(Cell(Idx(pos)), 100)

\* C2. Blocking and resume: an opcode-3 instruction reached with every supplied
\* input consumed makes run return with status Blocked and nothing else
\* changed, the pointer still at that instruction; a Blocked machine outside
\* the loop rests on an opcode-3 instruction; and an opcode-3 instruction
\* reached with an unconsumed input (whose operand resolves) writes that input
\* to the resolved cell, advances the cursor by one and the pointer by 2 and
\* stays in the loop.
C2_BlockAndResume ==
    /\ [](status = Blocked /\ pc \in {"idle", "check"} =>
              InBoundsUsize(pos) /\ OpcodeAt = 3)
    /\ [][(pc = "loop" /\ InBoundsUsize(pos) /\ OpcodeAt = 3) =>
            IF input_pos = Len(inputs)
            THEN /\ status' = Blocked /\ pc' = "idle" /\ pos' = pos
                 /\ UNCHANGED <<mem, mem_len, inputs, outputs, input_pos, output_pos,
                                relative_base, fault>>
            ELSE Arg(0).fault = "none" =>
                 /\ mem' = Store(Arg(0).addr, inputs[input_pos + 1])
                 /\ input_pos' = input_pos + 1
                 /\ pos' = USize(Idx(pos) + 2)
                 /\ pc' = "loop"
                 /\ UNCHANGED <<inputs, outputs, status, relative_base, fault>>]_vars
    /\ [][pc = "check" /\ status = Blocked => pc' = "loop" /\ UNCHANGED mvars]_vars

\* The instruction 3,4 at cell 0 blocked, one input 7 was appended, and the
\* resumed run has stored it in cell 4 and moved on to cell 2.
C2_Witness ==
    /\ status = Blocked /\ pc = "loop"
    /\ Cell(0) = 3 /\ Cell(1) = 4 /\ Cell(4) = 7
    /\ inputs = <<7>> /\ input_pos = 1
    /\ pos = USize(2)

\* What holds of the machine whenever run has just returned.
ReturnContract ==
    /\ InBoundsUsize(pos)
    /\ \/ status = Blocked /\ OpcodeAt = 3 /\ input_pos >= Len(inputs)
       \/ status = Finished /\ OpcodeAt = 99
       \/ /\ status = BadOpcode(OpcodeAt)
          /\ OpcodeAt \notin (1 .. 9) \cup {99}

\* C3. Run contract: every return of run leaves status Blocked, Finished or
\* BadOpcode(c), never Runnable: Blocked only at an opcode-3 instruction with
\* no unconsumed input, Finished only at opcode 99, BadOpcode(c) only with
\* c = mem[pos] % 100 (the remainder as Rust takes it, negative for a negative
\* word) outside 1..9 and 99.
C3_RunContract ==
    [][(pc \in {"check", "loop"} /\ pc' = "idle") => ReturnContract']_vars

\* A run has returned BadOpcode(-1) on the negative word -1.
C3_Witness ==
    /\ pc = "idle"
    /\ status = BadOpcode(-1)
    /\ Cell(Idx(pos)) = -1

\* The number of operands the instruction with this opcode evaluates.
C10_Operands(opcode) ==
    CASE opcode \in {1, 2, 7, 8} -> 3
      [] opcode \in {5, 6} -> 2
      [] opcode \in {3, 4, 9} -> 1

\* The mode digit of operand k: (w / 100 / 10^k) mod 10 of the word w at pos.
C10_Digit(k) == ((Cell(Idx(pos)) \div 100) \div (10 ^ k)) % 10

\* The address operand k resolves to under its mode digit.
C10_Addr(k) ==
    CASE C10_Digit(k) = 0 -> Cell(Idx(pos) + 1 + k)
      [] C10_Digit(k) = 1 -> Idx(pos) + 1 + k
      [] C10_Digit(k) = 2 -> relative_base + Cell(Idx(pos) + 1 + k)

\* Operand k has a mode digit 0, 1 or 2 and resolves inside the memory.
C10_Resolves(k) ==
    /\ C10_Digit(k) \in {0, 1, 2}
    /\ InBounds(Idx(pos) + 1 + k)
    /\ InBounds(C10_Addr(k))

\* The instruction at pos is about to evaluate its operands.
C10_Executing ==
    /\ pc = "loop" /\ InBoundsUsize(pos)
    /\ OpcodeAt \in 1 .. 9
    /\ OpcodeAt = 3 => input_pos < Len(inputs)

\* C10. Addressing-mode decode: operand k of the instruction word w at the
\* pointer is resolved under the mode digit (w / 100 / 10^k) mod 10: digit 0
\* to the address mem[pos+1+k], digit 1 to the operand cell pos+1+k itself,
\* digit 2 to relative_base + mem[pos+1+k], and the instruction reads and
\* writes exactly those cells; an operand reached with any other digit
\* panics, leaving the status as it was (never BadOpcode for it).
C10_AddressingModes ==
    [][C10_Executing =>
        LET n == C10_Operands(OpcodeAt)
            a0 == Cell(C10_Addr(0))
            a1 == Cell(C10_Addr(1))
        IN  /\ (\E k \in 0 .. (n - 1) :
                    /\ C10_Digit(k) \notin {0, 1, 2}
                    /\ \A j \in 0 .. (k - 1) : C10_Resolves(j))
               => (fault' = "bad_mode" /\ pc' = "panicked" /\ status' = status)
            /\ (\A k \in 0 .. (n - 1) : C10_Resolves(k))
               => /\ fault' = "none"
                  /\ CASE OpcodeAt = 1 -> mem' = Store(C10_Addr(2), a0 + a1)
                       [] OpcodeAt = 2 -> mem' = Store(C10_Addr(2), a0 * a1)
                       [] OpcodeAt = 3 ->
                            mem' = Store(C10_Addr(0), inputs[input_pos + 1])
                       [] OpcodeAt = 4 -> outputs' = Append(outputs, a0)
                       [] OpcodeAt = 5 ->
                            pos' = IF a0 # 0 THEN AsUsize(a1) ELSE USize(Idx(pos) + 3)
                       [] OpcodeAt = 6 ->
                            pos' = IF a0 = 0 THEN AsUsize(a1) ELSE USize(Idx(pos) + 3)
                       [] OpcodeAt = 7 ->
                            mem' = Store(C10_Addr(2), IF a0 < a1 THEN 1 ELSE 0)
                       [] OpcodeAt = 8 ->
                            mem' = Store(C10_Addr(2), IF a0 = a1 THEN 1 ELSE 0)
                       [] OpcodeAt = 9 -> relative_base' = relative_base + a0]_vars

\* The word 1002 at cell 0 has executed with modes (0, 1, 0): cell 4 holds
\* mem[1] * 4, not mem[1] * mem[4].
C10_Witness ==
    /\ pc = "loop" /\ pos = USize(4)
    /\ Cell(0) = 1002 /\ Cell(1) = 1 /\ Cell(2) = 4 /\ Cell(3) = 4
    /\ Cell(4) = 4

----------------------------------------------------------------------------
(* Properties of the World, checked under SpecWorld. *)

\* The decoder of this mode is about to take the next chunk of the outputs.
Decoding(mode) == wpc = mode /\ pc = "idle" /\ MoreChunks

\* C4. Output grouping: when the outputs at a polling boundary end in an
\* incomplete group of one or two integers, the World (in process and in
\* play) decodes the complete groups only and leaves the trailing integers
\* in place, unconsumed, changing neither tiles nor score; and each decoding
\* step moves on to the next group, so no group is decoded twice.
C4_IncompleteGroupLeftUnconsumed ==
    [][(Decoding("process_decode") \/ Decoding("play_decode")) =>
          IF Len(Chunk) < 3
          THEN fault' = "none" /\ UNCHANGED <<tiles, score, outputs>>
          ELSE chunk_idx' = chunk_idx + 1 /\ outputs' = outputs]_vars

\* The decoder has panicked on a trailing group of fewer than three integers.
C4_Witness ==
    /\ fault = "chunk_index"
    /\ Len(outputs) % 3 # 0

\* The decoding rule of section 4.2 applied to the triple (a, b, c): a score
\* update for (a, b) = (-1, 0), a tile otherwise.
DecodeRule(a, b, c) ==
    IF a = -1 /\ b = 0
    THEN /\ score' = c
         /\ UNCHANGED <<tiles, paddle_x, ball_x>>
    ELSE /\ DOMAIN tiles' = (DOMAIN tiles) \cup {<<a, b>>}
         /\ tiles'[<<a, b>>] = c
         /\ \A k \in (DOMAIN tiles) \ {<<a, b>>} : tiles'[k] = tiles[k]
         /\ score' = score

InPlay == wpc \in {"play", "play_loop", "play_decode", "play_done"}

\* C5. Score-vs-tile disambiguation in play mode: a decoded triple (a, b, c)
\* with (a, b) = (-1, 0) sets score to c and leaves tiles, paddle_x and ball_x
\* unchanged; any other triple sets tiles[(a, b)] to c, overwriting a prior
\* value, and leaves score and every other tile unchanged; the key (-1, 0) is
\* never in the tile mapping.
C5_ScoreVsTile ==
    /\ [][Decoding("play_decode") /\ Len(Chunk) = 3 =>
             DecodeRule(Chunk[1], Chunk[2], Chunk[3])]_vars
    /\ [](InPlay => <<-1, 0>> \notin DOMAIN tiles)

\* Play has decoded (0,0,2), then (0,0,0) over it, then the score (-1,0,5).
C5_Witness ==
    /\ wpc = "play_decode" /\ chunk_idx = 3
    /\ outputs = <<0, 0, 2, 0, 0, 0, -1, 0, 5>>
    /\ score = 5
    /\ DOMAIN tiles = {<<0, 0>>} /\ tiles[<<0, 0>>] = 0

\* C6. Free-run mode (World::process) performs one run and decodes its output
\* by the same rule as play mode: (-1, 0, c) sets score to c and is not
\* inserted into the tile mapping, any other (a, b, c) sets tiles[(a, b)] = c.
C6_ProcessDecodesLikePlay ==
    /\ [][Decoding("process_decode") /\ Len(Chunk) = 3 =>
             DecodeRule(Chunk[1], Chunk[2], Chunk[3])]_vars
    /\ [][wpc = "process_decode" => pc' # "check"]_vars

\* Free-run mode has stored a score triple as the tile (-1, 0).
C6_Witness ==
    /\ wpc = "process_done"
    /\ <<-1, 0>> \in DOMAIN tiles
    /\ score = 0

\* No tile of the mapping is coded 2.
NoBlocks == \A k \in DOMAIN tiles : tiles[k] # 2

\* Play has decoded every output of the run that has just returned.
Decoded == wpc = "play_decode" /\ pc = "idle" /\ ~MoreChunks

\* C7. Play-mode termination: with the outputs of a run decoded, play returns
\* at once when no tile is coded 2, whatever the status, appending no input and
\* calling run no more; with a tile coded 2 left it returns only if the status
\* is Finished, and otherwise appends exactly one input and runs the machine
\* again; play returns at no other point.
C7_PlayTermination ==
    [][/\ Decoded =>
            IF NoBlocks \/ status = Finished
            THEN wpc' = "play_done" /\ pc' = "idle" /\ UNCHANGED mvars
            ELSE /\ Len(inputs') = Len(inputs) + 1
                 /\ SubSeq(inputs', 1, Len(inputs)) = inputs
                 /\ wpc' = "play_loop" /\ pc' = "idle"
       /\ wpc = "play_loop" =>
            pc' = "check" /\ wpc' = "play_decode" /\ inputs' = inputs
       /\ (wpc # "play_done" /\ wpc' = "play_done") => Decoded]_vars

\* Play has returned with the only block cleared and the machine not
\* Finished, after one input.
C7_Witness ==
    /\ wpc = "play_done"
    /\ status # Finished
    /\ Len(inputs) = 1
    /\ DOMAIN tiles = {<<0, 0>>} /\ tiles[<<0, 0>>] = 0

\* C8. No retry after InvalidOpcode: once a run called by play has returned
\* BadOpcode(code), play does not call run again.
C8_NoRetryAfterBadOpcode ==
    ~(InPlay /\ pc = "check" /\ IsBadOpcode(status))

\* Play has appended an input to a machine in status BadOpcode and called run
\* on it again, a tile coded 2 remaining.
C8_Witness ==
    /\ wpc = "play_decode" /\ pc = "check"
    /\ IsBadOpcode(status)
    /\ ~NoBlocks
    /\ Len(inputs) = MaxInputs

\* The sign of ball_x - paddle_x.
C9_Sign ==
    IF ball_x - paddle_x < 0 THEN -1
    ELSE IF ball_x - paddle_x > 0 THEN 1
    ELSE 0

\* C9. Autopilot correctness: the inputs of the machine change in play only
\* by appending, with the outputs of the cycle fully decoded, the sign of
\* ball_x - paddle_x: -1, 0 or +1.
C9_AutopilotInput ==
    [][inputs' # inputs => Decoded /\ inputs' = Append(inputs, C9_Sign)]_vars

\* Play has supplied 0 (ball and paddle aligned) and then -1 (the paddle
\* moved right of the ball).
C9_Witness ==
    /\ inputs = <<0, -1>>
    /\ ball_x = 0 /\ paddle_x = 1

\* The loaded program is built only from opcodes 1, 2 and 99: four-cell
\* instructions of opcode 1 or 2 followed by a final 99.
C11_ArithProgram ==
    /\ Len(program) % 4 = 1
    /\ TruncRem(program[Len(program)], 100) = 99
    /\ \A i \in 0 .. ((Len(program) \div 4) - 1) :
           TruncRem(program[4 * i + 1], 100) \in {1, 2}

\* Cell i of the memory after the step.
NextCell(i) == IF i \in DOMAIN mem' THEN mem'[i] ELSE 0

\* A run has returned (run never returns with status Runnable).
C11_Returned == pc = "idle" /\ status # Runnable

\* C11 as stated. Arithmetic programs: every run of a program built only
\* from opcodes 1, 2 and 99 that stays in bounds ends with status Finished.
C11_ArithmeticEndsFinished ==
    (C11_ArithProgram /\ C11_Returned) => status = Finished

\* C11, amended. Arithmetic programs: an instruction of opcode 1 or 2 whose
\* operands resolve sets its target cell to read(0) + read(1), respectively
\* read(0) * read(1), both operands read before the write, leaves every
\* other cell and the rest of the machine unchanged and advances the pointer
\* by 4; a word of opcode 99 at the pointer ends the run with status
\* Finished and changes nothing else. A program built only from opcodes 1, 2
\* and 99 ends in another status only after a store has overwritten one of
\* its instruction words. [1,0,0,0,99] finishes with mem[0] = 2.
C11_Arithmetic ==
    /\ [][(/\ pc = "loop" /\ InBoundsUsize(pos)
           /\ OpcodeAt \in {1, 2}
           /\ \A k \in 0 .. 2 : C10_Resolves(k))
          => LET a == Cell(C10_Addr(0))
                 b == Cell(C10_Addr(1))
                 target == C10_Addr(2)
                 val == IF OpcodeAt = 1 THEN a + b ELSE a * b
             IN  /\ NextCell(target) = val
                 /\ \A i \in (DOMAIN mem \cup DOMAIN mem') \ {target} :
                        NextCell(i) = Cell(i)
                 /\ pos' = USize(Idx(pos) + 4)
                 /\ pc' = "loop"
                 /\ UNCHANGED <<mem_len, inputs, outputs, input_pos,
                                output_pos, status, relative_base>>]_vars
    /\ [][(pc = "loop" /\ InBoundsUsize(pos) /\ OpcodeAt = 99)
          => /\ status' = Finished
             /\ pc' = "idle"
             /\ UNCHANGED <<mem, mem_len, pos, inputs, outputs, input_pos,
                            output_pos, relative_base>>]_vars
    /\ []((C11_ArithProgram /\ C11_Returned /\ status # Finished)
          => \E i \in 0 .. (Len(program) \div 4) :
                Cell(4 * i) # program[4 * i + 1])
    /\ []((program = <<1, 0, 0, 0, 99>> /\ C11_Returned)
          => status = Finished /\ Cell(0) = 2 /\ pos = USize(4))

\* [1,0,0,0,99] has run to its end: cell 0 holds 1 + 1, the operand cell
\* being also the target.
C11_Witness ==
    /\ program = <<1, 0, 0, 0, 99>>
    /\ pc = "idle" /\ status = Finished
    /\ Cell(0) = 2 /\ pos = USize(4)

\* C12. Input cursor: under any interleaving of add_input / add_inputs and
\* run the cursor stays between 0 and the number of supplied inputs and never
\* decreases; the supplied inputs only grow at their end; the cursor moves
\* only when opcode 3 executes, by one, and that execution writes the input
\* under the cursor to its target cell and to no other cell. So successive
\* opcode-3 executions write the supplied inputs in order, each at most once.
C12_InputCursor ==
    /\ [](input_pos \in 0 .. Len(inputs))
    /\ [][/\ input_pos' >= input_pos
          /\ Len(inputs') >= Len(inputs)
          /\ SubSeq(inputs', 1, Len(inputs)) = inputs]_vars
    /\ [][input_pos' # input_pos
          => /\ pc = "loop" /\ InBoundsUsize(pos) /\ OpcodeAt = 3
             /\ input_pos' = input_pos + 1
             /\ inputs' = inputs]_vars
    /\ [][(pc = "loop" /\ InBoundsUsize(pos) /\ OpcodeAt = 3
             /\ input_pos < Len(inputs))
          => /\ input_pos' = input_pos + 1
             /\ \/ pc' = "panicked" /\ mem' = mem
                \/ /\ pc' = "loop"
                   /\ C10_Resolves(0)
                   /\ NextCell(C10_Addr(0)) = inputs[input_pos + 1]
                   /\ \A i \in (DOMAIN mem \cup DOMAIN mem')
                                  \ {C10_Addr(0)} : NextCell(i) = Cell(i)]_vars

\* [3,0,3,2,..] has consumed the inputs -1 and 7 in this order: -1 went to
\* cell 0 and 7 to cell 2.
C12_Witness ==
    /\ inputs = <<-1, 7>> /\ input_pos = 2
    /\ program[1] = 3 /\ program[3] = 3
    /\ Cell(0) = -1 /\ Cell(2) = 7
    /\ pos = USize(4)

\* The instruction at pos is about to store through operand k, whose mode
\* digit is 1.
C13_ImmediateTarget(k) ==
    /\ pc = "loop" /\ InBoundsUsize(pos)
    /\ \/ OpcodeAt \in {1, 2, 7, 8} /\ k = 2
       \/ OpcodeAt = 3 /\ k = 0 /\ input_pos < Len(inputs)
    /\ C10_Digit(k) = 1

\* C13. Immediate mode is never a write target: an instruction of opcode 1,
\* 2, 3, 7 or 8 whose write operand has mode digit 1 stores nothing, in
\* particular it does not overwrite its own operand cell pos + 1 + k.
C13_ImmediateNeverWritten ==
    [][\A k \in {0, 2} : C13_ImmediateTarget(k) => mem' = mem]_vars

\* The add 11101,1,4,c has stored 1 + 4 in its own third operand cell.
C13_Witness ==
    /\ program[1] = 11101 /\ program[2] = 1 /\ program[3] = 4
    /\ pc = "loop" /\ pos = USize(4)
    /\ Cell(3) = 5 /\ program[4] # 5

\* The machine is in status Blocked with every supplied input consumed: run
\* returned Blocked and no input has been appended since.
C14_BlockedNoInput == status = Blocked /\ input_pos = Len(inputs)

\* C14. A run of a Blocked machine without new input is a no-op: the machine
\* waits at its opcode-3 instruction; run called on it with no input appended
\* enters the loop, finds no input and returns with status Blocked; memory,
\* pointer, relative base, input cursor, inputs and outputs are unchanged by
\* each of its steps.
C14_BlockedRunNoOp ==
    /\ []((status = Blocked /\ pc \in {"idle", "check"})
          => InBoundsUsize(pos) /\ OpcodeAt = 3)
    /\ [][(C14_BlockedNoInput /\ pc = "check")
          => pc' = "loop" /\ UNCHANGED mvars]_vars
    /\ [][(C14_BlockedNoInput /\ pc = "loop" /\ InBoundsUsize(pos) /\ OpcodeAt = 3)
          => pc' = "idle" /\ UNCHANGED mvars]_vars

\* Run has been called again on a machine that blocked after consuming its
\* one input, no input appended since.
C14_Witness ==
    /\ pc = "check"
    /\ C14_BlockedNoInput
    /\ Len(inputs) = 1

\* C15. Jump instructions: opcode 5 sets the pointer to read(1) when read(0)
\* is non-zero, opcode 6 when read(0) is zero, and otherwise each advances
\* the pointer by 3; memory, relative base, inputs, input cursor, outputs and
\* status are unchanged. (The pointer is a usize: a negative read(1) is
\* stored as 2^64 + read(1), written here in base-10^9 digits.)
C15_Jumps ==
    [][(/\ pc = "loop" /\ InBoundsUsize(pos)
        /\ OpcodeAt \in {5, 6}
        /\ C10_Resolves(0) /\ C10_Resolves(1))
       => LET cond == Cell(C10_Addr(0))
              target == Cell(C10_Addr(1))
              taken == IF OpcodeAt = 5 THEN cond # 0 ELSE cond = 0
          IN  /\ taken /\ target >= 0 => pos' = USize(target)
              /\ taken /\ target < 0
                    => pos' = <<18, 446744073, 709551616 + target>>
              /\ ~taken => pos' = USize(Idx(pos) + 3)
              /\ pc' = "loop"
              /\ UNCHANGED <<mem, mem_len, relative_base, inputs, input_pos,
                             outputs, output_pos, status>>]_vars

\* The jump-if-true 1105,1,4 has moved the pointer to 4 (not to 3).
C15_Witness ==
    /\ program[1] = 1105 /\ program[2] = 1 /\ program[3] = 4
    /\ pc = "loop" /\ pos = USize(4) /\ steps = 1
    /\ mem = NewMem(program)

\* C16. Relative base and status frame: relative_base changes only when
\* opcode 9 executes, which adds read(0) to it and advances the pointer by 2,
\* changing nothing else; status changes only inside run; outside run, that
\* is under add_input, add_inputs and get_output (and on entering run),
\* status, pointer, relative base and memory are unchanged, so a Blocked
\* machine stays Blocked when inputs are appended.
C16_RelativeBaseAndStatusFrame ==
    /\ [][relative_base' # relative_base
          => pc = "loop" /\ InBoundsUsize(pos) /\ OpcodeAt = 9]_vars
    /\ [][(pc = "loop" /\ InBoundsUsize(pos) /\ OpcodeAt = 9 /\ C10_Resolves(0))
          => /\ relative_base' = relative_base + Cell(C10_Addr(0))
             /\ pos' = USize(Idx(pos) + 2)
             /\ pc' = "loop"
             /\ UNCHANGED <<mem, mem_len, inputs, input_pos, outputs,
                            output_pos, status>>]_vars
    /\ [][status' # status => pc = "loop"]_vars
    /\ [][pc = "idle"
          => UNCHANGED <<status, pos, relative_base, mem, mem_len>>]_vars

\* 109,2 followed by 109,1 has moved the relative base from 0 to 2 and then
\* to 3.
C16_Witness ==
    /\ program[1] = 109 /\ program[2] = 2
    /\ program[3] = 109 /\ program[4] = 1
    /\ pc = "loop" /\ pos = USize(4)
    /\ relative_base = 3

\* C17. Outputs are append-only under run: an executed opcode-4 instruction
\* appends read(0) at the end of the outputs and changes nothing but the
\* pointer; no other step of run changes the outputs; outside run the
\* outputs change only by the clear with which a play cycle starts.
C17_OutputsAppendOnly ==
    /\ [][(pc = "loop" /\ InBoundsUsize(pos) /\ OpcodeAt = 4 /\ C10_Resolves(0))
          => /\ outputs' = Append(outputs, Cell(C10_Addr(0)))
             /\ pos' = USize(Idx(pos) + 2)
             /\ pc' = "loop"
             /\ UNCHANGED <<mem, mem_len, inputs, input_pos, output_pos,
                            status, relative_base>>]_vars
    /\ [][(pc \in {"check", "loop"} /\ outputs' # outputs)
          => /\ pc = "loop" /\ InBoundsUsize(pos) /\ OpcodeAt = 4
             /\ Len(outputs') = Len(outputs) + 1
             /\ SubSeq(outputs', 1, Len(outputs)) = outputs]_vars
    /\ [][(pc \notin {"check", "loop"} /\ outputs' # outputs)
          => wpc = "play_loop" /\ wpc' = "play_decode" /\ outputs' = <<>>]_vars

\* The second cycle of a play has produced 104 (the word in cell 4, read in
\* position mode), the three outputs of the first cycle having been cleared.
C17_Witness ==
    /\ InPlay /\ runs = 2
    /\ Len(inputs) = 1
    /\ tiles = (<<0, 0>> :> 2)
    /\ outputs = <<104>>

\* C18. Paddle and ball tracking: paddle_x and ball_x are 0 when play
\* starts and change only when play decodes a triple; decoding (x, y, 3)
\* other than a score triple sets paddle_x to x, decoding (x, y, 4) other
\* than a score triple sets ball_x to x, and every other triple, the score
\* triples (-1, 0, 3) and (-1, 0, 4) included, leaves them as they are. So
\* after a cycle is decoded each holds the x of the most recent such triple
\* over all cycles so far, or 0.
C18_PaddleBallTracking ==
    /\ [](wpc = "play" => paddle_x = 0 /\ ball_x = 0)
    /\ [][(paddle_x' # paddle_x \/ ball_x' # ball_x)
          => Decoding("play_decode") /\ Len(Chunk) = 3]_vars
    /\ [][(Decoding("play_decode") /\ Len(Chunk) = 3)
          => LET x == Chunk[1]
                 y == Chunk[2]
                 tile == Chunk[3]
                 isScore == x = -1 /\ y = 0
             IN  /\ paddle_x' = IF ~isScore /\ tile = 3 THEN x ELSE paddle_x
                 /\ ball_x' = IF ~isScore /\ tile = 4 THEN x ELSE ball_x]_vars

\* Play has decoded the paddle triple (1, 0, 3), then the ball triple
\* (-1, 1, 4), then the score triple (-1, 0, 3): the paddle is still at 1.
C18_Witness ==
    /\ wpc = "play_decode" /\ chunk_idx = 3
    /\ outputs = <<1, 0, 3, -1, 1, 4, -1, 0, 3>>
    /\ paddle_x = 1 /\ ball_x = -1
    /\ score = 3

\* The number of coordinates of t coded 2.
C19_Blocks(t) == Cardinality({k \in DOMAIN t : t[k] = 2})

\* A triple is being decoded, in process or in play.
C19_Decoding ==
    /\ Decoding("process_decode") \/ Decoding("play_decode")
    /\ Len(Chunk) = 3

\* C19. The tile mapping never shrinks: no step removes a coordinate; the
\* mapping changes only when process or play decodes a triple (x, y, c), and
\* then at most at (x, y); the number of tiles coded 2 decreases only, and
\* then by one, when the decoded triple overwrites a coordinate coded 2 with
\* another code.
C19_TilesNeverShrink ==
    /\ [][DOMAIN tiles \subseteq DOMAIN tiles']_vars
    /\ [][tiles' # tiles
          => /\ C19_Decoding
             /\ \A k \in (DOMAIN tiles) \ {<<Chunk[1], Chunk[2]>>} :
                    tiles'[k] = tiles[k]
             /\ DOMAIN tiles' = (DOMAIN tiles) \cup {<<Chunk[1], Chunk[2]>>}]_vars
    /\ [][C19_Blocks(tiles') < C19_Blocks(tiles)
          => /\ C19_Decoding
             /\ <<Chunk[1], Chunk[2]>> \in DOMAIN tiles
             /\ tiles[<<Chunk[1], Chunk[2]>>] = 2
             /\ Chunk[3] # 2
             /\ tiles'[<<Chunk[1], Chunk[2]>>] = Chunk[3]
             /\ C19_Blocks(tiles') = C19_Blocks(tiles) - 1]_vars

\* Process has decoded (0, 0, 2) and then (0, 0, 0): the coordinate is kept,
\* now coded 0, and no tile coded 2 is left.
C19_Witness ==
    /\ wpc = "process_done"
    /\ outputs = <<0, 0, 2, 0, 0, 0>>
    /\ tiles = (<<0, 0>> :> 0)

\* C20. Request/response rhythm: whenever run returns Blocked every supplied
\* input has been consumed; play appends one input at a time, only with the
\* outputs of a cycle decoded, so none before the first run; at the start of
\* every run in play mode at most one unconsumed input is pending and the
\* number of inputs supplied is the number of run calls made so far minus
\* one.
C20_RequestResponseRhythm ==
    /\ [][(pc = "loop" /\ pc' = "idle" /\ status' = Blocked)
          => input_pos' = Len(inputs')]_vars
    /\ [][(InPlay /\ inputs' # inputs)
          => /\ Decoded /\ runs >= 1
             /\ Len(inputs') = Len(inputs) + 1]_vars
    /\ []((InPlay /\ pc = "check")
          => /\ Len(inputs) - input_pos <= 1
             /\ Len(inputs) = runs - 1)

\* Play has called run for the third time on a machine in status BadOpcode:
\* the two inputs appended so far are both unconsumed.
C20_Witness ==
    /\ InPlay /\ pc = "check"
    /\ runs = 3
    /\ IsBadOpcode(status)
    /\ Len(inputs) = 2 /\ input_pos = 0

====
